---- MODULE Spec2Model ----
(***************************************************************************)
(* DIA -> COO / CSR / ELL conversions of                                   *)
(* cusp/system/detail/generic/conversions/dia_to_other.h.                  *)
(*                                                                         *)
(* Arrays are TLA+ sequences: C++ element a[k] is a[k + 1].                *)
(***************************************************************************)
EXTENDS Integers, Sequences, FiniteSets

\* ------------------------------------------------------------- bounds
MaxRows == 2
MaxCols == 2
MaxDiags == 2
MaxPad == 1
MaxVal == 2
MaxSlots == 4

VARIABLES src, coo, csr, ell, called

vars == <<src, coo, csr, ell, called>>

\* ------------------------------------------------------------- helpers
Zeros(n) == [i \in 1..n |-> 0]

\* ------------------------------------------------- the source DIA matrix
\* cusp::array2d<ValueType, MemorySpace, column_major> src.values:
\* num_rows x num_diagonals logical entries in a block of pitch * num_diagonals
NumDiagonals(s) == Len(s.diagonal_offsets)

ValuesNumRows(s) == s.num_rows

ValuesNumCols(s) == NumDiagonals(s)

\* src.values.num_entries: the length of the linear enumeration
ValuesNumEntries(s) == s.pitch * NumDiagonals(s)

\* ------------------------------------------------------------ functors
modulus_value(k, m) == k % m

divide_value(k, m) == k \div m

sum_tuple_functor(a, b) == a + b

\* logical_to_other_physical_functor<IndexType, row_major, column_major>
logical_to_other_physical_functor(n, num_rows, num_cols, pitch) ==
    LET i == n \div num_cols
        j == n % num_cols
    IN  j * pitch + i

\* off by one at the upper end of the column range
valid_ell_functor_Inclusive(col, num_cols) ==
    IF col >= 0 /\ col <= num_cols THEN col ELSE -1

valid_ell_functor(col, num_cols) ==
    IF col >= 0 /\ col < num_cols THEN col ELSE -1

\* the column range test left out
is_valid_coo_index_NoColumnTest(t, num_rows, num_cols) ==
    /\ t[1] > -1 /\ t[1] < num_rows
    /\ t[3] # 0

is_valid_coo_index(t, num_rows, num_cols) ==
    /\ t[1] > -1 /\ t[1] < num_rows
    /\ t[2] > -1 /\ t[2] < num_cols
    /\ t[3] # 0

\* ----------------------------------------------------------- iterators
\* row_indices_begin[k]
row_indices_begin(s, k) == modulus_value(k, s.pitch)

\* gather_indices_begin[k]
gather_indices_begin(s, k) == divide_value(k, s.pitch)

\* offsets_begin[k]
offsets_begin(s, k) == s.diagonal_offsets[gather_indices_begin(s, k) + 1]

\* column_indices_begin[k]
column_indices_begin(s, k) ==
    sum_tuple_functor(offsets_begin(s, k), row_indices_begin(s, k))

\* zip_iterator(row_indices_begin, column_indices_begin, src.values.values.begin())[k]
ZipAt(s, k) == <<row_indices_begin(s, k), column_indices_begin(s, k), s.values[k + 1]>>

\* the zip iterator read in physical order, without the permutation
PermutedZipAt_NoPermutation(s, n) == ZipAt(s, n)

\* permutation_iterator(zip, transform(counting(0), logical_to_other_physical))[n]
PermutedZipAt(s, n) ==
    ZipAt(s, logical_to_other_physical_functor(n, ValuesNumRows(s), ValuesNumCols(s), s.pitch))

\* thrust::copy of the first num_entries permuted tuples into temp0, temp1, temp2
TempTuples(s) == [n \in 1..ValuesNumEntries(s) |-> PermutedZipAt(s, n - 1)]

\* thrust::copy_if over the temporaries: stable compaction
copy_if_valid(temp, num_rows, num_cols) ==
    SelectSeq(temp, LAMBDA t : is_valid_coo_index(t, num_rows, num_cols))

\* the output range of copy_if lands on an array of the given capacity
WriteFront(arr, new) ==
    [i \in 1..Len(arr) |-> IF i <= Len(new) THEN new[i] ELSE arr[i]]

Column(seq, c) == [i \in 1..Len(seq) |-> seq[i][c]]

\* ------------------------------------------------------- destinations
\* kept is the number of triples copy_if wrote (the end iterator it returns,
\* which convert discards); overrun says that this number exceeds the
\* capacity of the output arrays, i.e. that a write landed past their end.
\* a default-constructed destination
EmptyCoo ==
    [num_rows |-> 0, num_cols |-> 0, num_entries |-> 0,
     row_indices |-> <<>>, column_indices |-> <<>>, values |-> <<>>,
     kept |-> 0, overrun |-> FALSE]

\* coo_matrix::resize(num_rows, num_cols, num_entries)
coo_resize(d, num_rows, num_cols, num_entries) ==
    [d EXCEPT !.num_rows = num_rows, !.num_cols = num_cols,
              !.num_entries = num_entries,
              !.row_indices = Zeros(num_entries),
              !.column_indices = Zeros(num_entries),
              !.values = Zeros(num_entries)]

\* convert(exec, src, dst, dia_format, coo_format)
convert_dia_coo(s, d) ==
    LET r == coo_resize(d, s.num_rows, s.num_cols, s.num_entries)
    IN  IF s.num_entries = 0 THEN r
        ELSE LET out == copy_if_valid(TempTuples(s), s.num_rows, s.num_cols)
             IN  [r EXCEPT !.row_indices = WriteFront(@, Column(out, 1)),
                           !.column_indices = WriteFront(@, Column(out, 2)),
                           !.values = WriteFront(@, Column(out, 3)),
                           !.kept = Len(out),
                           !.overrun = Len(out) > s.num_entries]

EmptyCsr ==
    [num_rows |-> 0, num_cols |-> 0, num_entries |-> 0,
     row_offsets |-> <<0>>, column_indices |-> <<>>, values |-> <<>>,
     row_indices |-> <<>>, kept |-> 0, overrun |-> FALSE]

\* csr_matrix::resize(num_rows, num_cols, num_entries)
csr_resize(d, num_rows, num_cols, num_entries) ==
    [d EXCEPT !.num_rows = num_rows, !.num_cols = num_cols,
              !.num_entries = num_entries,
              !.row_offsets = Zeros(num_rows + 1),
              !.column_indices = Zeros(num_entries),
              !.values = Zeros(num_entries)]

\* cusp::detail::indices_to_offsets(indices, offsets): per-row counts, prefix-summed
RowCount(indices, r) == Cardinality({i \in 1..Len(indices) : indices[i] = r})

RECURSIVE PrefixSum(_, _)
PrefixSum(indices, r) ==
    IF r = 0 THEN 0 ELSE PrefixSum(indices, r - 1) + RowCount(indices, r - 1)

indices_to_offsets(indices, offsets) ==
    [r \in 1..Len(offsets) |-> PrefixSum(indices, r - 1)]

\* convert(exec, src, dst, dia_format, csr_format)
convert_dia_csr(s, d) ==
    LET r == csr_resize(d, s.num_rows, s.num_cols, s.num_entries)
    IN  IF s.num_entries = 0 THEN r
        ELSE LET out == copy_if_valid(TempTuples(s), s.num_rows, s.num_cols)
                 row_indices == WriteFront(Zeros(s.num_entries), Column(out, 1))
             IN  [r EXCEPT !.column_indices = WriteFront(@, Column(out, 2)),
                           !.values = WriteFront(@, Column(out, 3)),
                           !.row_indices = row_indices,
                           !.row_offsets = indices_to_offsets(row_indices, @),
                           !.kept = Len(out),
                           !.overrun = Len(out) > s.num_entries]

EmptyEll ==
    [num_rows |-> 0, num_cols |-> 0, num_entries |-> 0,
     num_entries_per_row |-> 0, pitch |-> 0,
     column_indices |-> <<>>, values |-> <<>>]

\* ell_matrix::resize(num_rows, num_cols, num_entries, num_entries_per_row, pitch)
ell_resize(d, num_rows, num_cols, num_entries, num_entries_per_row, pitch) ==
    [d EXCEPT !.num_rows = num_rows, !.num_cols = num_cols,
              !.num_entries = num_entries,
              !.num_entries_per_row = num_entries_per_row,
              !.pitch = pitch,
              !.column_indices = Zeros(pitch * num_entries_per_row),
              !.values = Zeros(pitch * num_entries_per_row)]

\* the num_entries == 0 return left out
convert_dia_ell_NoEarlyReturn(s, d) ==
    LET r == ell_resize(d, s.num_rows, s.num_cols, s.num_entries,
                        Len(s.diagonal_offsets), s.pitch)
        cols == [n \in 1..ValuesNumEntries(s) |->
                    valid_ell_functor(column_indices_begin(s, n - 1), s.num_cols)]
    IN  [r EXCEPT !.column_indices = WriteFront(@, cols),
                  !.values = WriteFront(@, s.values)]

\* convert(exec, src, dst, dia_format, ell_format)
convert_dia_ell(s, d) ==
    LET r == ell_resize(d, s.num_rows, s.num_cols, s.num_entries,
                        Len(s.diagonal_offsets), s.pitch)
    IN  IF s.num_entries = 0 THEN r
        ELSE LET cols == [n \in 1..ValuesNumEntries(s) |->
                            valid_ell_functor(column_indices_begin(s, n - 1), s.num_cols)]
             IN  [r EXCEPT !.column_indices = WriteFront(@, cols),
                           !.values = WriteFront(@, s.values)]

\* ------------------------------------------------------------ the source
\* num_entries counts the explicitly stored entries: every nonzero at a matrix
\* coordinate, and any number of the zeros stored at matrix coordinates.
\* Slots outside the matrix (pitch padding, diagonal overhang) hold any value.
\* slots of the value block that name a coordinate of the matrix
InMatrix(nr, nc, pitch, offs, k) ==
    /\ k % pitch < nr
    /\ offs[(k \div pitch) + 1] + (k % pitch) >= 0
    /\ offs[(k \div pitch) + 1] + (k % pitch) < nc

NonzeroSlots(nr, nc, pitch, offs, vals) ==
    {k \in 0..(Len(vals) - 1) : InMatrix(nr, nc, pitch, offs, k) /\ vals[k + 1] # 0}

ZeroSlots(nr, nc, pitch, offs, vals) ==
    {k \in 0..(Len(vals) - 1) : InMatrix(nr, nc, pitch, offs, k) /\ vals[k + 1] = 0}

Init ==
    /\ \E nr \in 0..MaxRows, nc \in 0..MaxCols, nd \in 0..MaxDiags, pad \in 0..MaxPad :
         /\ (nr + pad) * nd <= MaxSlots
         /\ \E offs \in [1..nd -> (-nr)..nc], vals \in [1..((nr + pad) * nd) -> 0..MaxVal] :
              \E ne \in Cardinality(NonzeroSlots(nr, nc, nr + pad, offs, vals))..
                        (Cardinality(NonzeroSlots(nr, nc, nr + pad, offs, vals))
                          + Cardinality(ZeroSlots(nr, nc, nr + pad, offs, vals))) :
                 src = [num_rows |-> nr, num_cols |-> nc, num_entries |-> ne,
                        diagonal_offsets |-> offs, pitch |-> nr + pad, values |-> vals]
    /\ coo = EmptyCoo
    /\ csr = EmptyCsr
    /\ ell = EmptyEll
    /\ called = {}

ConvertCoo ==
    /\ "coo" \notin called
    /\ called' = called \cup {"coo"}
    /\ coo' = convert_dia_coo(src, coo)
    /\ UNCHANGED <<src, csr, ell>>

ConvertCsr ==
    /\ "csr" \notin called
    /\ called' = called \cup {"csr"}
    /\ csr' = convert_dia_csr(src, csr)
    /\ UNCHANGED <<src, coo, ell>>

ConvertEll ==
    /\ "ell" \notin called
    /\ called' = called \cup {"ell"}
    /\ ell' = convert_dia_ell(src, ell)
    /\ UNCHANGED <<src, coo, csr>>

Next == ConvertCoo \/ ConvertCsr \/ ConvertEll

Spec == Init /\ [][Next]_vars

\* ------------------------------------------------- vocabulary of the claims
Rows == 0..(src.num_rows - 1)

Diags == 1..Len(src.diagonal_offsets)

\* the value stored at (row, d) of the column-major block
StoredValue(row, d) == src.values[(d - 1) * src.pitch + row + 1]

DerivedColumn(row, d) == src.diagonal_offsets[d] + row

InRange(row, d) == DerivedColumn(row, d) >= 0 /\ DerivedColumn(row, d) < src.num_cols

Survives(row, d) == InRange(row, d) /\ StoredValue(row, d) # 0

SurvivingPairs == {p \in Rows \X Diags : Survives(p[1], p[2])}

TripleOf(p) == <<p[1], DerivedColumn(p[1], p[2]), StoredValue(p[1], p[2])>>

CooEntry(i) == <<coo.row_indices[i], coo.column_indices[i], coo.values[i]>>

CooEntries == [i \in 1..Len(coo.row_indices) |-> CooEntry(i)]

Occurrences(seq, t) == Cardinality({i \in 1..Len(seq) : seq[i] = t})

Range(seq) == {seq[i] : i \in 1..Len(seq)}

NonDecreasing(seq) == \A a, b \in 1..Len(seq) : a < b => seq[a] <= seq[b]

\* one row index per entry, rebuilt from CSR row offsets
RECURSIVE ExpandOffsets(_, _)
ExpandOffsets(offsets, r) ==
    IF r = 0 THEN <<>>
    ELSE ExpandOffsets(offsets, r - 1)
            \o [i \in 1..(offsets[r + 1] - offsets[r]) |-> r - 1]

CsrRowOf(i) ==
    {r \in 0..(Len(csr.row_offsets) - 2) :
        csr.row_offsets[r + 1] < i /\ i <= csr.row_offsets[r + 2]}

\* ------------------------------------------------------------------ C1
\* C1: after DIA->COO the entries of the destination are exactly the triples
\* (row, offset[d] + row, value at (row, d)) over all rows and stored
\* diagonals with the column in [0, num_cols) and the value nonzero, each
\* once, and no other triple.
C1_CooEntriesAreExactlyTheValidTriples ==
    "coo" \in called =>
        /\ coo.num_entries = Len(CooEntries)
        /\ \A t \in Range(CooEntries) \cup {TripleOf(p) : p \in SurvivingPairs} :
              Occurrences(CooEntries, t)
                = Cardinality({p \in SurvivingPairs : TripleOf(p) = t})

\* ------------------------------------------------------------------ C2
\* C2: after DIA->CSR row_offsets has length num_rows + 1, is non-decreasing
\* and ends with the number of entries that survive the filter.
C2_CsrRowOffsetsCountSurvivors ==
    "csr" \in called =>
        /\ Len(csr.row_offsets) = src.num_rows + 1
        /\ NonDecreasing(csr.row_offsets)
        /\ csr.row_offsets[src.num_rows + 1] = Cardinality(SurvivingPairs)

\* ------------------------------------------------------------------ C3
\* C3: the COO and the CSR result of one source hold the same triples: the
\* CSR row offsets expand to COO's row_indices, and column_indices and
\* values agree position by position.
C3_CooAndCsrAgree ==
    {"coo", "csr"} \subseteq called =>
        /\ ExpandOffsets(csr.row_offsets, Len(csr.row_offsets) - 1) = coo.row_indices
        /\ csr.column_indices = coo.column_indices
        /\ csr.values = coo.values

\* ------------------------------------------------------------------ C6
\* C6: after DIA->COO the entry count and the common array length equal the
\* number of valid nonzero entries, and every entry position holds an
\* in-bounds coordinate with a nonzero value.
C6_CooHoldsOnlyValidNonzeros ==
    "coo" \in called =>
        /\ coo.num_entries = Cardinality(SurvivingPairs)
        /\ Len(coo.row_indices) = Cardinality(SurvivingPairs)
        /\ Len(coo.column_indices) = Cardinality(SurvivingPairs)
        /\ Len(coo.values) = Cardinality(SurvivingPairs)
        /\ \A i \in 1..Len(coo.row_indices) :
              /\ coo.row_indices[i] >= 0 /\ coo.row_indices[i] < src.num_rows
              /\ coo.column_indices[i] >= 0 /\ coo.column_indices[i] < src.num_cols
              /\ coo.values[i] # 0

\* ------------------------------------------------------------------ C4
Slots == 0..(src.pitch * Len(src.diagonal_offsets) - 1)

SlotColumn(p) == src.diagonal_offsets[(p \div src.pitch) + 1] + (p % src.pitch)

SlotColumnInRange(p) == SlotColumn(p) >= 0 /\ SlotColumn(p) < src.num_cols

EllSentinelsMatch ==
    \A p \in Slots :
        /\ ell.column_indices[p + 1] = -1 <=> ~SlotColumnInRange(p)
        /\ SlotColumnInRange(p) => ell.column_indices[p + 1] = SlotColumn(p)

\* C4 as stated: after DIA->ELL the column-index block has pitch x
\* num_diagonals slots and a slot holds -1 exactly when its derived column
\* is outside [0, num_cols), every other slot holding the derived column.
C4_EllSentinelsForEverySource ==
    "ell" \in called =>
        /\ Len(ell.column_indices) = src.pitch * Len(src.diagonal_offsets)
        /\ EllSentinelsMatch

\* C4 as amended: the slot count holds for every source; the sentinel
\* correspondence holds for every source with num_entries # 0 (a source with
\* num_entries = 0 leaves the block as the resize made it).
C4_EllSentinelsWhenNotEmpty ==
    "ell" \in called =>
        /\ Len(ell.column_indices) = src.pitch * Len(src.diagonal_offsets)
        /\ src.num_entries # 0 => EllSentinelsMatch

C4_Witness ==
    /\ "ell" \in called
    /\ src.num_entries # 0
    /\ src.pitch > src.num_rows
    /\ \E p, q \in Slots :
          /\ ell.column_indices[p + 1] = -1
          /\ ell.column_indices[q + 1] > 0

\* ------------------------------------------------------------------ C5
StoredZeros == {p \in Rows \X Diags : InRange(p[1], p[2]) /\ StoredValue(p[1], p[2]) = 0}

\* C5: DIA->ELL copies every slot of the value block verbatim (once past the
\* num_entries = 0 return); a stored 0 whose derived column is in range keeps
\* its real column index in ELL and is absent from the COO and the CSR result.
C5_ZeroKeptInEllAbsentFromCooCsr ==
    /\ ("ell" \in called /\ src.num_entries # 0) =>
          /\ ell.values = src.values
          /\ \A p \in StoredZeros :
                ell.column_indices[(p[2] - 1) * src.pitch + p[1] + 1]
                    = DerivedColumn(p[1], p[2])
    /\ "coo" \in called =>
          \A p \in StoredZeros : TripleOf(p) \notin Range(CooEntries)
    /\ "csr" \in called =>
          \A p \in StoredZeros :
              ~\E i \in 1..Len(csr.column_indices) :
                    /\ p[1] \in CsrRowOf(i)
                    /\ csr.column_indices[i] = DerivedColumn(p[1], p[2])
                    /\ csr.values[i] = 0

\* ------------------------------------------------------------------ C7
\* C7: for a source with num_entries = 0 each conversion returns right after
\* the resize: the destination has zero entries, the source's num_rows and
\* num_cols, and (CSR) row_offsets of length num_rows + 1; nothing is written.
C7_EmptySourceOnlyResizes ==
    src.num_entries = 0 =>
        /\ "coo" \in called =>
              /\ coo.num_rows = src.num_rows /\ coo.num_cols = src.num_cols
              /\ coo.num_entries = 0 /\ coo.kept = 0
              /\ coo.row_indices = <<>> /\ coo.column_indices = <<>> /\ coo.values = <<>>
        /\ "csr" \in called =>
              /\ csr.num_rows = src.num_rows /\ csr.num_cols = src.num_cols
              /\ csr.num_entries = 0 /\ csr.kept = 0
              /\ csr.row_offsets = Zeros(src.num_rows + 1)
              /\ csr.column_indices = <<>> /\ csr.values = <<>>
        /\ "ell" \in called =>
              /\ ell.num_rows = src.num_rows /\ ell.num_cols = src.num_cols
              /\ ell.num_entries = 0
              /\ ell.column_indices = Zeros(src.pitch * Len(src.diagonal_offsets))
              /\ ell.values = Zeros(src.pitch * Len(src.diagonal_offsets))

C7_Witness ==
    /\ called = {"coo", "csr", "ell"}
    /\ src.num_entries = 0
    /\ src.num_rows > 0 /\ src.num_cols > 0
    /\ \E p \in Slots : ~SlotColumnInRange(p) /\ src.values[p + 1] # 0

\* ------------------------------------------------------------------ C8
\* C8: in DIA->COO and DIA->CSR the destination has exactly src.num_entries
\* slots and the compaction writes no more triples than that: no write
\* lands past the end of the arrays.
C8_CompactionFitsAllocation ==
    /\ "coo" \in called =>
          /\ Len(coo.row_indices) = src.num_entries
          /\ Len(coo.column_indices) = src.num_entries
          /\ Len(coo.values) = src.num_entries
          /\ coo.kept <= src.num_entries /\ ~coo.overrun
    /\ "csr" \in called =>
          /\ Len(csr.row_indices) = src.num_entries
          /\ Len(csr.column_indices) = src.num_entries
          /\ Len(csr.values) = src.num_entries
          /\ csr.kept <= src.num_entries /\ ~csr.overrun

C8_Witness ==
    /\ {"coo", "csr"} \subseteq called
    /\ coo.kept = src.num_entries /\ csr.kept = src.num_entries
    /\ src.num_entries > 1
    /\ \E p \in Slots : ~SlotColumnInRange(p) /\ src.values[p + 1] # 0

\* ------------------------------------------------------------------ C9
DiagMajorPairs ==
    [n \in 1..(src.num_rows * Len(src.diagonal_offsets)) |->
        <<(n - 1) % src.num_rows, ((n - 1) \div src.num_rows) + 1>>]

RowMajorPairs ==
    [n \in 1..(src.num_rows * Len(src.diagonal_offsets)) |->
        <<(n - 1) \div Len(src.diagonal_offsets), ((n - 1) % Len(src.diagonal_offsets)) + 1>>]

SurvivorsIn(pairs) ==
    LET kept == SelectSeq(pairs, LAMBDA p : Survives(p[1], p[2]))
    IN  [i \in 1..Len(kept) |-> TripleOf(kept[i])]

CooKept == SubSeq(CooEntries, 1, coo.kept)

CsrKept ==
    [i \in 1..csr.kept |-> <<csr.row_indices[i], csr.column_indices[i], csr.values[i]>>]

\* C9 as stated: the survivors are compacted diagonal-major and row-minor:
\* every survivor of diagonal d precedes every survivor of diagonal d + 1
\* and within a diagonal the rows ascend.
C9_SurvivorsDiagonalMajor ==
    /\ "coo" \in called => CooKept = SurvivorsIn(DiagMajorPairs)
    /\ "csr" \in called => CsrKept = SurvivorsIn(DiagMajorPairs)

\* C9 as amended: the survivors are compacted row-major and diagonal-minor:
\* every survivor of row r precedes every survivor of row r + 1 and within a
\* row the survivors appear in ascending index of the stored diagonal.
C9_SurvivorsRowMajor ==
    /\ "coo" \in called => CooKept = SurvivorsIn(RowMajorPairs)
    /\ "csr" \in called => CsrKept = SurvivorsIn(RowMajorPairs)

C9_Witness ==
    /\ {"coo", "csr"} \subseteq called
    /\ coo.kept >= 3
    /\ SurvivorsIn(RowMajorPairs) # SurvivorsIn(DiagMajorPairs)

\* ----------------------------------------------------------------- C10
\* C10: the row indices the filter step writes (dst.row_indices in COO, the
\* temporary row_indices in CSR) are non-decreasing over the survivors.
C10_SurvivorRowsSorted ==
    /\ "coo" \in called => NonDecreasing(SubSeq(coo.row_indices, 1, coo.kept))
    /\ "csr" \in called => NonDecreasing(SubSeq(csr.row_indices, 1, csr.kept))

C10_Witness ==
    /\ {"coo", "csr"} \subseteq called
    /\ Len(src.diagonal_offsets) > 1
    /\ csr.kept >= 3
    /\ csr.row_indices[1] < csr.row_indices[csr.kept]

====
